---- MODULE Spec2Model ----
(***************************************************************************)
(* Model of the decaffeinate command line front-end, src/cli.js.           *)
(*                                                                         *)
(* Strings are sequences of characters.  A path is a sequence whose        *)
(* elements are the separator "/", the dot "." and words (runs of          *)
(* characters holding neither a separator nor a dot), so that every        *)
(* string test of the code (endsWith, extname, basename, dirname, join)    *)
(* is computed on the path the way the code computes it on the string.     *)
(***************************************************************************)
EXTENDS Integers, Sequences, FiniteSets, TLC

----------------------------------------------------------------------------
(* Sequences *)

Range(s) == {s[i] : i \in 1..Len(s)}

Last(s) == s[Len(s)]

SetMax(S) == CHOOSE x \in S : \A y \in S : y <= x

RECURSIVE Flatten(_)
Flatten(ss) == IF ss = <<>> THEN <<>> ELSE Head(ss) \o Flatten(Tail(ss))

RECURSIVE SeqsUpTo(_, _)
SeqsUpTo(S, n) ==
    IF n = 0 THEN {<<>>}
    ELSE LET shorter == SeqsUpTo(S, n - 1)
         IN  shorter \cup {Append(s, x) : s \in {t \in shorter : Len(t) = n - 1}, x \in S}

----------------------------------------------------------------------------
(* Strings and paths: String.prototype.endsWith and the functions of       *)
(* Node's posix path module that cli.js imports.                           *)

SLASH == "/"
DOT == "."

COFFEE == <<".", "coffee">>
LITCOFFEE == <<".", "litcoffee">>
COFFEE_MD == <<".", "coffee", ".", "md">>
JS == <<".", "js">>

endsWith(s, suffix) ==
    /\ Len(suffix) <= Len(s)
    /\ SubSeq(s, Len(s) - Len(suffix) + 1, Len(s)) = suffix

\* The end of the last path component: the last character that is no separator
\* (0 when there is none).
ComponentEnd(path) ==
    LET ns == {i \in 1..Len(path) : path[i] # SLASH}
    IN  IF ns = {} THEN 0 ELSE SetMax(ns)

\* The start of the last path component.
ComponentStart(path) ==
    LET e == ComponentEnd(path)
        sl == {i \in 1..e : path[i] = SLASH}
    IN  IF sl = {} THEN 1 ELSE SetMax(sl) + 1

extname(path) ==
    LET e == ComponentEnd(path)
        s == ComponentStart(path)
        dots == {i \in s..e : path[i] = DOT}
        startDot == IF dots = {} THEN 0 ELSE SetMax(dots)
    IN  IF e = 0 \/ dots = {} THEN <<>>
        ELSE IF startDot = s THEN <<>>                       \* a dot file: ".coffee"
        ELSE IF e = s + 1 /\ path[s] = DOT /\ path[e] = DOT THEN <<>>   \* ".."
        ELSE SubSeq(path, startDot, e)

\* basename(path, ext) is "" when ext is the whole path, and the whole last
\* component when ext is all of that component: the suffix is only taken off
\* a longer name.
basename(path, ext) ==
    LET e == ComponentEnd(path)
        s == ComponentStart(path)
        comp == SubSeq(path, s, e)
    IN  IF e = 0 THEN <<>>
        ELSE IF ext = <<>> \/ Len(ext) > Len(path) THEN comp
        ELSE IF ext = path THEN <<>>
        ELSE IF endsWith(comp, ext)
             THEN IF Len(comp) = Len(ext) THEN comp
                  ELSE SubSeq(comp, 1, Len(comp) - Len(ext))
        ELSE IF endsWith(ext, comp) THEN SubSeq(path, s, Len(path))
        ELSE comp

dirname(path) ==
    LET hasRoot == Len(path) > 0 /\ path[1] = SLASH
        ns == {i \in 2..Len(path) : path[i] # SLASH}
        m == IF ns = {} THEN 0 ELSE SetMax(ns)
        sl == {i \in 2..m : path[i] = SLASH}
        end == IF sl = {} THEN 0 ELSE SetMax(sl)
    IN  IF Len(path) = 0 THEN <<DOT>>
        ELSE IF end = 0 THEN (IF hasRoot THEN <<SLASH>> ELSE <<DOT>>)
        ELSE IF hasRoot /\ end = 2 THEN <<SLASH, SLASH>>
        ELSE SubSeq(path, 1, end - 1)

\* The components of a path, empty ones included: "a//b" is a, "", b.
RECURSIVE SplitPath(_)
SplitPath(path) ==
    LET sl == {i \in 1..Len(path) : path[i] = SLASH}
    IN  IF sl = {} THEN <<path>>
        ELSE LET k == SetMax(sl)
             IN  Append(SplitPath(SubSeq(path, 1, k - 1)), SubSeq(path, k + 1, Len(path)))

RECURSIVE JoinWith(_)
JoinWith(segs) ==
    IF segs = <<>> THEN <<>>
    ELSE IF Len(segs) = 1 THEN segs[1]
    ELSE segs[1] \o <<SLASH>> \o JoinWith(Tail(segs))

DOTDOT == <<DOT, DOT>>

\* normalizeString: drops empty and "." components and resolves ".." ones.
RECURSIVE NormalizeSegs(_, _, _)
NormalizeSegs(segs, res, allowAboveRoot) ==
    IF segs = <<>> THEN res
    ELSE LET seg == Head(segs)
             rest == Tail(segs)
         IN  IF seg = <<>> \/ seg = <<DOT>> THEN NormalizeSegs(rest, res, allowAboveRoot)
             ELSE IF seg = DOTDOT
                  THEN IF res # <<>> /\ Last(res) # DOTDOT
                       THEN NormalizeSegs(rest, SubSeq(res, 1, Len(res) - 1), allowAboveRoot)
                       ELSE IF allowAboveRoot
                            THEN NormalizeSegs(rest, Append(res, DOTDOT), allowAboveRoot)
                            ELSE NormalizeSegs(rest, res, allowAboveRoot)
             ELSE NormalizeSegs(rest, Append(res, seg), allowAboveRoot)

normalize(path) ==
    IF Len(path) = 0 THEN <<DOT>>
    ELSE LET isAbsolute == path[1] = SLASH
             trailingSeparator == Last(path) = SLASH
             body == JoinWith(NormalizeSegs(SplitPath(path), <<>>, ~isAbsolute))
         IN  IF body = <<>>
             THEN IF isAbsolute THEN <<SLASH>>
                  ELSE IF trailingSeparator THEN <<DOT, SLASH>> ELSE <<DOT>>
             ELSE (IF isAbsolute THEN <<SLASH>> ELSE <<>>) \o body
                  \o (IF trailingSeparator THEN <<SLASH>> ELSE <<>>)

join(a, b) ==
    IF a = <<>> /\ b = <<>> THEN <<DOT>>
    ELSE IF a = <<>> THEN normalize(b)
    ELSE IF b = <<>> THEN normalize(a)
    ELSE normalize(a \o <<SLASH>> \o b)

\* processFile, the path part: where the result of converting `path` is written.
outputPath(path) ==
    LET extension == IF endsWith(path, COFFEE_MD) THEN COFFEE_MD ELSE extname(path)
    IN  join(dirname(path), basename(path, extension)) \o JS

----------------------------------------------------------------------------
(* Text: bytes are decoded to characters when read and encoded when written. *)
(* "H" "T" are the lead and the continuation byte of the two-byte character *)
(* "e'", "R" stands for the encoding of the replacement character "?", and  *)
(* every other byte is the character of the same name.                      *)

RECURSIVE toString(_)
toString(bytes) ==
    IF bytes = <<>> THEN <<>>
    ELSE IF Head(bytes) = "H"
         THEN IF Len(bytes) >= 2 /\ bytes[2] = "T"
              THEN <<"e'">> \o toString(SubSeq(bytes, 3, Len(bytes)))
              ELSE <<"?">> \o toString(Tail(bytes))
    ELSE IF Head(bytes) \in {"T", "R"} THEN <<"?">> \o toString(Tail(bytes))
    ELSE <<Head(bytes)>> \o toString(Tail(bytes))

RECURSIVE toBytes(_)
toBytes(text) ==
    IF text = <<>> THEN <<>>
    ELSE (CASE Head(text) = "e'" -> <<"H", "T">>
            [] Head(text) = "?" -> <<"R">>
            [] OTHER -> <<Head(text)>>) \o toBytes(Tail(text))

----------------------------------------------------------------------------
(* The conversion engine, ./index: a function from source text to output   *)
(* text that throws on text it cannot convert.  "c" is CoffeeScript, "j"   *)
(* the JavaScript made of it, "m" modernized JavaScript; "p" makes the     *)
(* engine throw a PatchError and "b" any other error.  The engine is a     *)
(* function and no more: "v" is JavaScript that modernizeJS rewrites to    *)
(* "l", and "l" is JavaScript that it rewrites to "k", so that its output  *)
(* need not be text it leaves alone.                                       *)

Engine(code, rewrite) ==
    LET bad == {i \in 1..Len(code) : code[i] \in {"p", "b"}}
        first == CHOOSE i \in bad : \A k \in bad : i <= k
    IN  IF bad # {}
        THEN [ok |-> FALSE, patchError |-> code[first] = "p", code |-> <<>>]
        ELSE [ok |-> TRUE, patchError |-> FALSE,
              code |-> [i \in 1..Len(code) |->
                          IF code[i] \in DOMAIN rewrite THEN rewrite[code[i]] ELSE code[i]]]

convert(code, baseOptions) == Engine(code, [ch \in {"c"} |-> "j"])

modernizeJS(code, baseOptions) ==
    Engine(code, [ch \in {"j", "v", "l"} |->
                    CASE ch = "j" -> "m" [] ch = "v" -> "l" [] ch = "l" -> "k"])

----------------------------------------------------------------------------
(* The file system the front-end runs on. *)

File(bytes) == [kind |-> "file", bytes |-> bytes, list |-> <<>>]
Dir(list) == [kind |-> "dir", bytes |-> <<>>, list |-> list]

\* The function with the given <<path, entry>> pairs.
Tree(pairs) == [p \in {e[1] : e \in pairs} |-> (CHOOSE e \in pairs : e[1] = p)[2]]

Z == <<"z", ".", "coffee">>
Zjs == <<"z", ".", "js">>
W == <<"w", ".", "coffee", ".", "md">>
D == <<"D">>

In(dir, name) == dir \o <<SLASH>> \o name

\* A directory of two CoffeeScript files and a text file.
Listing1 == << <<"x", ".", "coffee">>, <<"n", ".", "txt">>, <<"y", ".", "coffee">> >>
Files1 == {<<In(D, n), File(<<"c">>)>> : n \in Range(Listing1)}

\* A directory holding directories: s.coffee, whose name passes the filter,
\* and t, whose name does not.
SubS == <<"s", ".", "coffee">>
SubT == <<"t">>
Listing2 == << SubS, SubT, <<"k", ".", "js">>, <<"l", ".", "litcoffee">> >>
Files2 ==
    {<<In(D, SubS), Dir(<< <<"q", ".", "coffee">>, <<"r", ".", "js">> >>)>>,
     <<In(In(D, SubS), <<"q", ".", "coffee">>), File(<<"c">>)>>,
     <<In(In(D, SubS), <<"r", ".", "js">>), File(<<"j">>)>>,
     <<In(D, SubT), Dir(<< <<"u", ".", "coffee">> >>)>>,
     <<In(In(D, SubT), <<"u", ".", "coffee">>), File(<<"c">>)>>,
     <<In(D, <<"k", ".", "js">>), File(<<"j">>)>>,
     <<In(D, <<"l", ".", "litcoffee">>), File(<<"c">>)>>}

\* A directory with an entry that cannot be stat'ed (g.coffee, a dangling
\* link) and names that only look like the extensions.
Listing3 == << <<"v", ".", "coffee", ".", "md">>, <<"coffee">>, <<"g", ".", "coffee">>,
               <<"h", ".", "js">> >>
Files3 ==
    {<<In(D, <<"v", ".", "coffee", ".", "md">>), File(<<"c">>)>>,
     <<In(D, <<"coffee">>), File(<<"c">>)>>,
     <<In(D, <<"h", ".", "js">>), File(<<"v">>)>>}

ZVariants == {"ok", "missing", "unreadable", "unwritable", "patch", "other"}
DVariants == {"missing", "unreadable", "one", "two", "three"}

World(zv, dv) ==
    [fs |-> Tree(
        {<<W, File(<<"H", "T", "c">>)>>}
        \cup (CASE zv = "missing" -> {}
                [] zv = "patch" -> {<<Z, File(<<"c", "p">>)>>}
                [] zv = "other" -> {<<Z, File(<<"b", "p">>)>>}
                [] OTHER -> {<<Z, File(<<"c">>)>>})
        \cup (CASE dv = "missing" -> {}
                [] dv = "unreadable" -> {<<D, Dir(Listing1)>>}
                [] dv = "one" -> {<<D, Dir(Listing1)>>} \cup Files1
                [] dv = "two" -> {<<D, Dir(Listing2)>>} \cup Files2
                [] dv = "three" -> {<<D, Dir(Listing3)>>} \cup Files3)),
     noRead |-> (IF zv = "unreadable" THEN {Z} ELSE {})
                \cup (IF dv = "unreadable" THEN {D} ELSE {}),
     noWrite |-> IF zv = "unwritable" THEN {Zjs} ELSE {}]

Worlds == {World(zv, dv) : zv \in ZVariants, dv \in DVariants}

Roots == {Z, W, D}

\* What arrives on the standard input, a chunk at a time.
Chunks == {<<"c">>, <<"H">>, <<"T", "c">>, <<"p">>, <<"b">>}

MaxPaths == 3
MaxChunks == 2

----------------------------------------------------------------------------
(* The state of one execution of the program. *)

VARIABLES
    options,    \* parseArguments' result: paths and modernizeJS
    callback,   \* whether runWithPaths was given a completion callback
    fs,         \* the file system: path -> file or directory
    faults,     \* the paths whose read (noRead) or write (noWrite) fails
    stdin,      \* the chunks the standard input has still to deliver
    pc,         \* "start", "paths", "stdio", "ended", "exit1" or "thrown"
    errors,     \* runWithPaths' errors
    pending,    \* runWithPaths' pending
    inflight,   \* the file system operations issued and not yet completed
    data,       \* runWithStdio's data
    log,        \* what the program has done so far, in order
    delivered,  \* the argument of every call of the callback, in order
    stdout,     \* the writes to the standard output, in order
    earlier     \* the file system as each execution so far found it

vars == <<options, callback, fs, faults, stdin, pc, errors, pending, inflight,
          data, log, delivered, stdout, earlier>>

Op(op, path, out, text) == [op |-> op, path |-> path, out |-> out, text |-> text]

Ev(ev, path, out, text, list, rest) ==
    [ev |-> ev, path |-> path, out |-> out, text |-> text, list |-> list, rest |-> rest]

Err(op, path) == [op |-> op, path |-> path]

STDIN == <<"stdin">>

\* run(args): the paths and the mode are parseArguments' result.  run itself
\* gives runWithPaths no callback; the parameter is optional, and both cases
\* are covered.  Without paths the program reads the standard input.
Init ==
    /\ options \in [paths : SeqsUpTo(Roots, MaxPaths), modernizeJS : BOOLEAN]
    /\ IF options.paths = <<>>
       THEN /\ callback = FALSE
            /\ \E w \in {World("ok", "one")} : fs = w.fs /\ faults = [noRead |-> w.noRead, noWrite |-> w.noWrite]
            /\ stdin \in SeqsUpTo(Chunks, MaxChunks)
       ELSE /\ callback \in BOOLEAN
            /\ \E w \in Worlds : fs = w.fs /\ faults = [noRead |-> w.noRead, noWrite |-> w.noWrite]
            /\ stdin = <<>>
    /\ pc = "start"
    /\ errors = <<>>
    /\ pending = <<>>
    /\ inflight = {}
    /\ data = <<>>
    /\ log = <<>>
    /\ delivered = <<>>
    /\ stdout = <<>>
    /\ earlier = <<fs>>

----------------------------------------------------------------------------
(* runWithCode: the engine's result, or how the call ends the run. *)

\* A faulty variant of runWithCode: a PatchError is swallowed and the run
\* goes on with an empty result.
runWithCode_Swallow(name, code, opts) ==
    LET baseOptions == [filename |-> name]
        r == IF opts.modernizeJS THEN modernizeJS(code, baseOptions)
             ELSE convert(code, baseOptions)
    IN  IF r.ok \/ r.patchError THEN [kind |-> "return", code |-> r.code]
        ELSE [kind |-> "throw", code |-> <<>>]

\* A faulty variant of runWithCode: every error of the engine is reported
\* and ends the process, as a PatchError does.
runWithCode_ExitsOnAny(name, code, opts) ==
    LET baseOptions == [filename |-> name]
        r == IF opts.modernizeJS THEN modernizeJS(code, baseOptions)
             ELSE convert(code, baseOptions)
    IN  IF r.ok THEN [kind |-> "return", code |-> r.code]
        ELSE [kind |-> "exit", code |-> <<>>]

runWithCode(name, code, opts) ==
    LET baseOptions == [filename |-> name]
        r == IF opts.modernizeJS THEN modernizeJS(code, baseOptions)
             ELSE convert(code, baseOptions)
    IN  IF r.ok THEN [kind |-> "return", code |-> r.code]
        ELSE IF r.patchError THEN [kind |-> "exit", code |-> <<>>]
        ELSE [kind |-> "throw", code |-> <<>>]

ConvertEv(name, code) == Ev("convert", name, <<>>, code, <<>>, <<>>)

----------------------------------------------------------------------------
(* runWithPaths *)

\* A faulty variant of processNext: the item behind the head is dropped with it.
processNext_SkipsOne(pend, errs, lg) ==
    IF Len(pend) > 0
    THEN /\ pending' = IF Len(pend) > 1 THEN Tail(Tail(pend)) ELSE <<>>
         /\ inflight' = {Op("stat", Head(pend), <<>>, <<>>)}
         /\ log' = Append(lg, Ev("stat", Head(pend), <<>>, <<>>, <<>>, <<>>))
         /\ delivered' = delivered
    ELSE /\ pending' = pend
         /\ inflight' = {}
         /\ log' = lg
         /\ delivered' = IF callback THEN Append(delivered, errs) ELSE delivered

\* A faulty variant of processNext: the callback is called each time.
processNext_AlwaysCallsBack(pend, errs, lg) ==
    /\ delivered' = IF callback THEN Append(delivered, errs) ELSE delivered
    /\ IF Len(pend) > 0
       THEN /\ pending' = Tail(pend)
            /\ inflight' = {Op("stat", Head(pend), <<>>, <<>>)}
            /\ log' = Append(lg, Ev("stat", Head(pend), <<>>, <<>>, <<>>, <<>>))
       ELSE /\ pending' = pend
            /\ inflight' = {}
            /\ log' = lg

\* processNext: takes the head of pending and stats it, or calls the callback.
\* pend, errs and lg are pending, errors and log as the caller leaves them.
processNext(pend, errs, lg) ==
    IF Len(pend) > 0
    THEN /\ pending' = Tail(pend)
         /\ inflight' = {Op("stat", Head(pend), <<>>, <<>>)}
         /\ log' = Append(lg, Ev("stat", Head(pend), <<>>, <<>>, <<>>, <<>>))
         /\ delivered' = delivered
    ELSE /\ pending' = pend
         /\ inflight' = {}
         /\ log' = lg
         /\ delivered' = IF callback THEN Append(delivered, errs) ELSE delivered

\* Faulty variants of the filter: one extension forgotten, and no filter.
eligible_NoLiterate(child, opts) ==
    IF opts.modernizeJS THEN endsWith(child, JS)
    ELSE endsWith(child, COFFEE) \/ endsWith(child, COFFEE_MD)

eligible_Any(child, opts) == TRUE

\* The filter of processDirectory.
eligible(child, opts) ==
    IF opts.modernizeJS THEN endsWith(child, JS)
    ELSE endsWith(child, COFFEE) \/ endsWith(child, LITCOFFEE) \/ endsWith(child, COFFEE_MD)

\* children.filter(...).map(child => join(path, child))
RECURSIVE filterMap(_, _, _)
filterMap(children, path, opts) ==
    IF children = <<>> THEN <<>>
    ELSE (IF eligible(Head(children), opts) THEN <<join(path, Head(children))>> ELSE <<>>)
         \o filterMap(Tail(children), path, opts)

\* Faulty variants of unshift: the items appended, and the items reversed.
unshift_Push(pend, items) == pend \o items

unshift_Reversed(pend, items) == [i \in 1..Len(items) |-> items[Len(items) + 1 - i]] \o pend

\* pending.unshift(...items)
unshift(pend, items) == items \o pend

\* A faulty variant of runWithPaths: every path is stat'ed at once.
RunWithPaths_AllAtOnce ==
    /\ pc = "start"
    /\ Len(options.paths) > 0
    /\ pc' = "paths"
    /\ errors' = <<>>
    /\ pending' = <<>>
    /\ inflight' = {Op("stat", options.paths[i], <<>>, <<>>) : i \in 1..Len(options.paths)}
    /\ log' = log \o [i \in 1..Len(options.paths) |->
                        Ev("stat", options.paths[i], <<>>, <<>>, <<>>, <<>>)]
    /\ UNCHANGED <<earlier, options, callback, fs, faults, stdin, data, delivered, stdout>>

RunWithPaths ==
    /\ pc = "start"
    /\ Len(options.paths) > 0
    /\ pc' = "paths"
    /\ errors' = <<>>
    /\ processNext(options.paths, <<>>, log)
    /\ UNCHANGED <<earlier, options, callback, fs, faults, stdin, data, stdout>>

\* A faulty variant of the callback of stat: a file whose name the filter of
\* processDirectory rejects is passed over.
StatCallback_Filters ==
    \E o \in inflight :
        /\ pc = "paths"
        /\ o.op = "stat"
        /\ IF o.path \notin DOMAIN fs
           THEN /\ errors' = Append(errors, Err("stat", o.path))
                /\ inflight' = inflight \ {o}
                /\ UNCHANGED <<log, pending, delivered>>
           ELSE IF fs[o.path].kind = "dir"
           THEN /\ inflight' = (inflight \ {o}) \cup {Op("readdir", o.path, <<>>, <<>>)}
                /\ log' = Append(log, Ev("readdir", o.path, <<>>, <<>>, <<>>, <<>>))
                /\ UNCHANGED <<errors, pending, delivered>>
           ELSE IF ~eligible(o.path, options)
           THEN /\ processNext(pending, errors, log)
                /\ UNCHANGED errors
           ELSE LET out == outputPath(o.path)
                IN  /\ inflight' = (inflight \ {o}) \cup {Op("readFile", o.path, out, <<>>)}
                    /\ log' = log \o <<Ev("console.log", o.path, out, <<>>, <<>>, <<>>),
                                      Ev("readFile", o.path, out, <<>>, <<>>, <<>>)>>
                    /\ UNCHANGED <<errors, pending, delivered>>
        /\ UNCHANGED <<earlier, options, callback, fs, faults, stdin, pc, data, stdout>>

\* processPath: the callback of stat.
StatCallback ==
    \E o \in inflight :
        /\ pc = "paths"
        /\ o.op = "stat"
        /\ IF o.path \notin DOMAIN fs
           THEN /\ errors' = Append(errors, Err("stat", o.path))
                /\ inflight' = inflight \ {o}
                /\ UNCHANGED log
           ELSE IF fs[o.path].kind = "dir"
           THEN /\ inflight' = (inflight \ {o}) \cup {Op("readdir", o.path, <<>>, <<>>)}
                /\ log' = Append(log, Ev("readdir", o.path, <<>>, <<>>, <<>>, <<>>))
                /\ UNCHANGED errors
           ELSE LET out == outputPath(o.path)
                IN  /\ inflight' = (inflight \ {o}) \cup {Op("readFile", o.path, out, <<>>)}
                    /\ log' = log \o <<Ev("console.log", o.path, out, <<>>, <<>>, <<>>),
                                      Ev("readFile", o.path, out, <<>>, <<>>, <<>>)>>
                    /\ UNCHANGED errors
        /\ UNCHANGED <<earlier, options, callback, fs, faults, stdin, pc, pending, data, delivered, stdout>>

\* A faulty variant of the callback of readdir: the error is not recorded.
ReaddirCallback_Forgets ==
    \E o \in inflight :
        /\ pc = "paths"
        /\ o.op = "readdir"
        /\ errors' = errors
        /\ IF o.path \in faults.noRead
           THEN processNext(pending, errors, log)
           ELSE LET children == fs[o.path].list
                IN  processNext(unshift(pending, filterMap(children, o.path, options)), errors,
                                Append(log, Ev("expand", o.path, <<>>, <<>>, children, pending)))
        /\ UNCHANGED <<earlier, options, callback, fs, faults, stdin, pc, data, stdout>>

\* processDirectory: the callback of readdir.
ReaddirCallback ==
    \E o \in inflight :
        /\ pc = "paths"
        /\ o.op = "readdir"
        /\ IF o.path \in faults.noRead
           THEN /\ errors' = Append(errors, Err("readdir", o.path))
                /\ processNext(pending, errors', log)
           ELSE LET children == fs[o.path].list
                IN  /\ errors' = errors
                    /\ processNext(unshift(pending, filterMap(children, o.path, options)), errors,
                                   Append(log, Ev("expand", o.path, <<>>, <<>>, children, pending)))
        /\ UNCHANGED <<earlier, options, callback, fs, faults, stdin, pc, data, stdout>>

\* A faulty variant of the callback of readFile: the text is written as it
\* was read, the engine is not called.
ReadFileCallback_SkipsConversion ==
    \E o \in inflight :
        /\ pc = "paths"
        /\ o.op = "readFile"
        /\ IF o.path \in faults.noRead
           THEN /\ errors' = Append(errors, Err("readFile", o.path))
                /\ processNext(pending, errors', log)
           ELSE LET code == toString(fs[o.path].bytes)
                IN  /\ UNCHANGED <<errors, pending, delivered>>
                    /\ inflight' = (inflight \ {o}) \cup {Op("writeFile", o.path, o.out, code)}
                    /\ log' = Append(log, Ev("writeFile", o.path, o.out, code, <<>>, <<>>))
        /\ UNCHANGED <<earlier, options, callback, fs, faults, stdin, pc, data, stdout>>

\* processFile: the callback of readFile.
ReadFileCallback ==
    \E o \in inflight :
        /\ pc = "paths"
        /\ o.op = "readFile"
        /\ IF o.path \in faults.noRead
           THEN /\ errors' = Append(errors, Err("readFile", o.path))
                /\ processNext(pending, errors', log)
                /\ UNCHANGED pc
           ELSE LET code == toString(fs[o.path].bytes)
                    r == runWithCode(o.path, code, options)
                    lg == Append(log, ConvertEv(o.path, code))
                IN  /\ UNCHANGED <<errors, pending, delivered>>
                    /\ CASE r.kind = "return" ->
                              /\ inflight' = (inflight \ {o}) \cup {Op("writeFile", o.path, o.out, r.code)}
                              /\ log' = Append(lg, Ev("writeFile", o.path, o.out, r.code, <<>>, <<>>))
                              /\ UNCHANGED pc
                         [] r.kind = "exit" ->
                              /\ inflight' = {}
                              /\ log' = Append(lg, Ev("console.error", o.path, <<>>, <<>>, <<>>, <<>>))
                              /\ pc' = "exit1"
                         [] r.kind = "throw" ->
                              /\ inflight' = {}
                              /\ log' = lg
                              /\ pc' = "thrown"
        /\ UNCHANGED <<earlier, options, callback, fs, faults, stdin, data, stdout>>

\* A faulty variant of writeFile: the text is added to what the file holds.
writeFile_Append(tree, out, text) ==
    IF out \in DOMAIN tree /\ tree[out].kind = "file"
    THEN (out :> File(tree[out].bytes \o toBytes(text))) @@ tree
    ELSE (out :> File(toBytes(text))) @@ tree

\* fs.writeFile(out, text) when it succeeds: the file holds the text,
\* and a file that did not exist is from now on listed in its directory.
writeFile(tree, out, text) ==
    LET dir == dirname(out)
        made == (out :> File(toBytes(text))) @@ tree
    IN  IF out \notin DOMAIN tree /\ dir \in DOMAIN tree /\ tree[dir].kind = "dir"
        THEN (dir :> Dir(Append(tree[dir].list, basename(out, <<>>)))) @@ made
        ELSE made

\* A faulty variant of the callback of writeFile: after a failure the error
\* is recorded and nothing more is done.
WriteFileCallback_Stalls ==
    \E o \in inflight :
        /\ pc = "paths"
        /\ o.op = "writeFile"
        /\ IF o.out \in faults.noWrite
           THEN /\ errors' = Append(errors, Err("writeFile", o.out))
                /\ fs' = fs
                /\ inflight' = inflight \ {o}
                /\ UNCHANGED <<pending, log, delivered>>
           ELSE /\ errors' = errors
                /\ fs' = writeFile(fs, o.out, o.text)
                /\ processNext(pending, errors, Append(log, Ev("written", o.path, o.out, o.text, <<>>, <<>>)))
        /\ UNCHANGED <<earlier, options, callback, faults, stdin, pc, data, stdout>>

\* processFile: the callback of writeFile.
WriteFileCallback ==
    \E o \in inflight :
        /\ pc = "paths"
        /\ o.op = "writeFile"
        /\ IF o.out \in faults.noWrite
           THEN /\ errors' = Append(errors, Err("writeFile", o.out))
                /\ fs' = fs
                /\ processNext(pending, errors', log)
           ELSE /\ errors' = errors
                /\ fs' = writeFile(fs, o.out, o.text)
                /\ processNext(pending, errors, Append(log, Ev("written", o.path, o.out, o.text, <<>>, <<>>)))
        /\ UNCHANGED <<earlier, options, callback, faults, stdin, pc, data, stdout>>

----------------------------------------------------------------------------
(* runWithStdio *)

\* A faulty variant of the accumulation: the chunk replaces the data.
concat_Overwrite(text, chunk) == toString(chunk)

\* data += chunk
concat(text, chunk) == text \o toString(chunk)

RunWithStdio ==
    /\ pc = "start"
    /\ Len(options.paths) = 0
    /\ pc' = "stdio"
    /\ data' = <<>>
    /\ UNCHANGED <<earlier, options, callback, fs, faults, stdin, errors, pending, inflight, log,
                   delivered, stdout>>

\* process.stdin.on('data', chunk => data += chunk)
StdinData ==
    /\ pc = "stdio"
    /\ stdin # <<>>
    /\ data' = concat(data, Head(stdin))
    /\ stdin' = Tail(stdin)
    /\ log' = Append(log, Ev("data", STDIN, <<>>, Head(stdin), <<>>, <<>>))
    /\ UNCHANGED <<earlier, options, callback, fs, faults, pc, errors, pending, inflight, delivered, stdout>>

\* process.stdin.on('end', ...)
StdinEnd ==
    /\ pc = "stdio"
    /\ stdin = <<>>
    /\ LET r == runWithCode(STDIN, data, options)
           lg == log \o <<Ev("end", STDIN, <<>>, <<>>, <<>>, <<>>), ConvertEv(STDIN, data)>>
       IN  CASE r.kind = "return" ->
                 /\ stdout' = Append(stdout, r.code)
                 /\ log' = lg
                 /\ pc' = "ended"
            [] r.kind = "exit" ->
                 /\ stdout' = stdout
                 /\ log' = Append(lg, Ev("console.error", STDIN, <<>>, <<>>, <<>>, <<>>))
                 /\ pc' = "exit1"
            [] r.kind = "throw" ->
                 /\ stdout' = stdout
                 /\ log' = lg
                 /\ pc' = "thrown"
    /\ UNCHANGED <<earlier, options, callback, fs, faults, stdin, errors, pending, inflight, data, delivered>>

Next ==
    \/ RunWithPaths
    \/ StatCallback
    \/ ReaddirCallback
    \/ ReadFileCallback
    \/ WriteFileCallback
    \/ RunWithStdio
    \/ StdinData
    \/ StdinEnd

Spec == Init /\ [][Next]_vars
----------------------------------------------------------------------------
(* processFile's output path over every short path: each run is given one  *)
(* path, which names a readable file.                                      *)

PathChars == {SLASH, DOT, "a", "coffee", "md"}

MaxPathLen == 6

\* What can name a file: not the empty string, nothing with a trailing
\* separator, neither "." nor "..".
IsFilePath(p) ==
    /\ p # <<>>
    /\ Last(p) # SLASH
    /\ ~(Last(p) = DOT /\ (Len(p) = 1 \/ p[Len(p) - 1] = SLASH))
    /\ ~(Len(p) >= 2 /\ Last(p) = DOT /\ p[Len(p) - 1] = DOT
         /\ (Len(p) = 2 \/ p[Len(p) - 2] = SLASH))

PathInputs == {p \in SeqsUpTo(PathChars, MaxPathLen) : IsFilePath(p)}

PathInit ==
    /\ \E p \in PathInputs, m \in BOOLEAN :
          /\ options = [paths |-> <<p>>, modernizeJS |-> m]
          /\ fs = (p :> File(<<"c">>))
    /\ callback = TRUE
    /\ faults = [noRead |-> {}, noWrite |-> {}]
    /\ stdin = <<>>
    /\ pc = "start"
    /\ errors = <<>>
    /\ pending = <<>>
    /\ inflight = {}
    /\ data = <<>>
    /\ log = <<>>
    /\ delivered = <<>>
    /\ stdout = <<>>
    /\ earlier = <<fs>>

PathNext == RunWithPaths \/ StatCallback \/ ReadFileCallback \/ WriteFileCallback

PathSpec == PathInit /\ [][PathNext]_vars

----------------------------------------------------------------------------
(* The program executed a second time on what the first execution left. *)

\* The execution is over: the run of runWithPaths has nothing outstanding,
\* or the process has exited or died of an uncaught error.
Over == (pc = "paths" /\ inflight = {}) \/ pc \in {"exit1", "thrown"}

\* The same command line is executed again: a new process, with the file
\* system as the first one left it.
RunAgain ==
    /\ Over
    /\ Len(earlier) = 1
    /\ earlier' = Append(earlier, fs)
    /\ pc' = "start"
    /\ errors' = <<>>
    /\ pending' = <<>>
    /\ inflight' = {}
    /\ log' = <<>>
    /\ delivered' = <<>>
    /\ UNCHANGED <<options, callback, fs, faults, stdin, data, stdout>>

TwiceInit == Init /\ options.paths # <<>>

TwiceNext ==
    \/ RunWithPaths
    \/ StatCallback
    \/ ReaddirCallback
    \/ ReadFileCallback
    \/ WriteFileCallback
    \/ RunAgain

TwiceSpec == TwiceInit /\ [][TwiceNext]_vars

----------------------------------------------------------------------------
(* What the claims speak of. *)

\* The run of runWithPaths has nothing outstanding: no callback is left to fire.
Quiescent == pc = "paths" /\ inflight = {}

\* The events of one kind, in order.
EventsOf(kind) == LET Test(e) == e.ev = kind IN SelectSeq(log, Test)

PathsOf(events) == [i \in 1..Len(events) |-> events[i].path]

\* The paths stat'ed so far, in order: the order in which work items are taken.
StatOrder == PathsOf(EventsOf("stat"))

\* The engine's result on a text, in the mode of the run.
EngineResult(text) ==
    IF options.modernizeJS THEN modernizeJS(text, [filename |-> <<>>])
    ELSE convert(text, [filename |-> <<>>])

\* A stat is about to fail: the one outstanding operation is a stat of a path
\* that does not exist.
StatFailing(o) == pc = "paths" /\ o \in inflight /\ o.op = "stat" /\ o.path \notin DOMAIN fs

----------------------------------------------------------------------------
\* C1: when a run of runWithPaths in which no conversion failed has no
\* operation outstanding (every issued stat, readdir, readFile and writeFile
\* has completed, with success or with an error), the work list is empty and
\* the callback has been called, once, with the accumulated errors.
C1_CompletionReached ==
    (Quiescent /\ callback) => (pending = <<>> /\ delivered = <<errors>>)

\* C2: a step in which the stat of the head work item fails appends the error
\* and goes on with the rest of the work list: it stats the next pending item,
\* or, when none is left, completes the run by calling the callback.
C2_StatFailureContinues ==
    [][\A o \in inflight : StatFailing(o) =>
          /\ errors' = Append(errors, Err("stat", o.path))
          /\ IF pending # <<>>
             THEN /\ inflight' = {Op("stat", Head(pending), <<>>, <<>>)}
                  /\ pending' = Tail(pending)
             ELSE callback => delivered' = Append(delivered, errors')]_vars

\* The top-level files of the path list: a valid one exists, can be read,
\* converts and can be written; a failing one is missing or unreadable.
ValidFile(p) ==
    /\ p \in DOMAIN fs
    /\ fs[p].kind = "file"
    /\ p \notin faults.noRead
    /\ outputPath(p) \notin faults.noWrite
    /\ EngineResult(toString(fs[p].bytes)).ok

FailingFile(p) == p \in {Z, W} /\ (p \notin DOMAIN fs \/ p \in faults.noRead)

WrittenFor(p) == LET Test(e) == e.ev = "written" /\ e.path = p IN Len(SelectSeq(log, Test))

Occurrences(p) == Cardinality({i \in 1..Len(options.paths) : options.paths[i] = p})

\* C3: a finished run over two or more top-level files of which exactly one is missing or
\* unreadable and the others are valid has written an output for every valid
\* file, before and after the failing one, has accumulated exactly one error,
\* the failing file's, and has delivered that non-empty error list.
C3_FailingFileIsIsolated ==
    LET ps == options.paths
        failing == {i \in 1..Len(ps) : FailingFile(ps[i])}
    IN  (/\ Quiescent
         /\ Cardinality(failing) = 1
         /\ Len(ps) >= 2
         /\ \A i \in (1..Len(ps)) \ failing : ValidFile(ps[i]))
        => /\ \A i \in (1..Len(ps)) \ failing : WrittenFor(ps[i]) = Occurrences(ps[i])
           /\ Len(errors) = 1
           /\ \A i \in failing : errors[1].path = ps[i]
           /\ callback => (delivered = <<errors>> /\ delivered[1] # <<>>)

\* C4: once the engine has thrown a PatchError on a file's text, the process
\* has exited with status 1 right there: the diagnostic is the last thing the
\* run did, nothing is outstanding, nothing was written for the file, no later
\* work item was touched and the callback was never called.
C4_PatchErrorIsFatal ==
    \A i \in 1..Len(log) :
        (/\ log[i].ev = "convert"
         /\ log[i].path # STDIN
         /\ ~EngineResult(log[i].text).ok
         /\ EngineResult(log[i].text).patchError)
        => /\ pc = "exit1"
           /\ inflight = {}
           /\ i = Len(log) - 1
           /\ log[Len(log)].ev = "console.error"
           /\ log[Len(log)].path = log[i].path
           /\ delivered = <<>>
           /\ ~ENABLED Next

\* A file's PatchError has ended a run that still had work to do.
C4_Witness ==
    /\ pc = "exit1"
    /\ options.paths # <<>>
    /\ pending # <<>>
    /\ \A i \in 1..Len(pending) : ValidFile(pending[i])

----------------------------------------------------------------------------
\* The paths stat'ed after the i-th event of the log, then the pending ones:
\* the work still to do when event i happened, as it has turned out so far.
RECURSIVE StatsFrom(_)
StatsFrom(i) ==
    IF i > Len(log) THEN <<>>
    ELSE (IF log[i].ev = "stat" THEN <<log[i].path>> ELSE <<>>) \o StatsFrom(i + 1)

WorkAfter(i) == StatsFrom(i + 1) \o pending

\* The children an expansion event put on the work list.
KidsOf(e) == filterMap(e.list, e.path, options)

\* How many children the expansions after event i have put on the work list.
RECURSIVE KidsAddedFrom(_)
KidsAddedFrom(i) ==
    IF i > Len(log) THEN 0
    ELSE (IF log[i].ev = "expand" THEN Len(KidsOf(log[i])) ELSE 0) + KidsAddedFrom(i + 1)

\* a is b with some elements left out.
RECURSIVE IsSubsequence(_, _)
IsSubsequence(a, b) ==
    IF a = <<>> THEN TRUE
    ELSE IF b = <<>> THEN FALSE
    ELSE IF Head(a) = Head(b) THEN IsSubsequence(Tail(a), Tail(b))
    ELSE IsSubsequence(a, Tail(b))

\* C5: after a directory is expanded, the work is done in this order: its
\* eligible children in listing order, the first of them at once, then the
\* items that were pending at the expansion; only the children of directories
\* expanded later come in between.
C5_ChildrenFirst ==
    \A i \in 1..Len(log) :
        log[i].ev = "expand" =>
            LET want == KidsOf(log[i]) \o log[i].rest
                work == WorkAfter(i)
            IN  /\ IsSubsequence(want, work)
                /\ Len(work) = Len(want) + KidsAddedFrom(i + 1)
                /\ want # <<>> => (i < Len(log) /\ log[i + 1].ev = "stat"
                                   /\ log[i + 1].path = want[1])

\* A directory with two eligible children was expanded ahead of a pending
\* item, and all three have been taken from the work list.
C5_Witness ==
    /\ Quiescent
    /\ pending = <<>>
    /\ \E i \in 1..Len(log) :
          /\ log[i].ev = "expand"
          /\ Len(KidsOf(log[i])) >= 2
          /\ log[i].rest # <<>>
          /\ StatsFrom(i + 1) = KidsOf(log[i]) \o log[i].rest

Dx == In(D, <<"x", ".", "coffee">>)
Dy == In(D, <<"y", ".", "coffee">>)

\* The directory D holds the files x.coffee and y.coffee when the run
\* begins, and the run converts CoffeeScript.
C6_Setting ==
    /\ ~options.modernizeJS
    /\ D \in DOMAIN fs /\ fs[D].kind = "dir" /\ earlier[1][D].list = Listing1
    /\ D \notin faults.noRead

\* C6 as stated: with D queued after the file z.coffee, a run that went
\* through without an error took D first, then x.coffee, y.coffee and z.coffee.
C6_AsStated ==
    (C6_Setting /\ options.paths = <<Z, D>> /\ Quiescent /\ errors = <<>>)
    => StatOrder = <<D, Dx, Dy, Z>>

IsPrefix(a, b) == Len(a) <= Len(b) /\ SubSeq(b, 1, Len(a)) = a

\* C6, amended: with the file z.coffee queued after D, and so still pending
\* when D is expanded, the work items are taken in the order D, x.coffee,
\* y.coffee, z.coffee, and a run that went through without an error has
\* taken them all and converted x.coffee, y.coffee and z.coffee in that order.
C6_ChildrenBeforeQueuedFile ==
    (C6_Setting /\ options.paths = <<D, Z>>)
    => /\ IsPrefix(StatOrder, <<D, Dx, Dy, Z>>)
       /\ (Quiescent /\ errors = <<>>)
            => /\ StatOrder = <<D, Dx, Dy, Z>>
               /\ PathsOf(EventsOf("written")) = <<Dx, Dy, Z>>

C6_Witness ==
    /\ C6_Setting
    /\ options.paths = <<D, Z>>
    /\ Quiescent
    /\ errors = <<>>
    /\ PathsOf(EventsOf("written")) = <<Dx, Dy, Z>>

----------------------------------------------------------------------------
\* A name matches the filter of the mode: it ends in .js when modernizing, in
\* .coffee, .litcoffee or .coffee.md otherwise.
NameMatches(name) ==
    LET n == Len(name)
        EndsIn(ext) == n >= 2 /\ name[n - 1] = "." /\ name[n] = ext
    IN  IF options.modernizeJS THEN EndsIn("js")
        ELSE \/ EndsIn("coffee")
             \/ EndsIn("litcoffee")
             \/ (n >= 4 /\ name[n - 3] = "." /\ name[n - 2] = "coffee" /\ EndsIn("md"))

\* A readdir is about to succeed.
Expanding(o) ==
    pc = "paths" /\ o \in inflight /\ o.op = "readdir" /\ o.path \notin faults.noRead

\* The work list with the item whose stat is outstanding at its head.
Work == (IF \E o \in inflight : o.op = "stat"
         THEN <<(CHOOSE o \in inflight : o.op = "stat").path>> ELSE <<>>) \o pending

CountIn(seq, x) == Cardinality({i \in 1..Len(seq) : seq[i] = x})

\* C7: the step that expands a directory puts on the work list, ahead of what
\* was pending, each child whose name matches the filter exactly once, as its
\* path in the directory, and nothing else.
C7_EligibleChildrenOnce ==
    [][\A o \in inflight : Expanding(o) =>
          LET added == SubSeq(Work', 1, Len(Work') - Len(pending))
              children == fs[o.path].list
          IN  /\ Work' = added \o pending
              /\ \A k \in 1..Len(children) :
                    CountIn(added, o.path \o <<SLASH>> \o children[k])
                        = IF NameMatches(children[k]) THEN 1 ELSE 0
              /\ \A k \in 1..Len(added) :
                    \E c \in Range(children) :
                        NameMatches(c) /\ added[k] = o.path \o <<SLASH>> \o c]_vars

\* A directory with matching and other names has been expanded.
C7_Witness ==
    \E i \in 1..Len(log) :
        /\ log[i].ev = "expand"
        /\ \E c \in Range(log[i].list) : NameMatches(c)
        /\ \E c \in Range(log[i].list) : ~NameMatches(c)
        /\ Len(KidsOf(log[i])) >= 2

----------------------------------------------------------------------------
ChildPaths(matching) ==
    UNION {{e.path \o <<SLASH>> \o c : c \in {n \in Range(e.list) : NameMatches(n) = matching}}
               : e \in {x \in Range(log) : x.ev = "expand"}}

----------------------------------------------------------------------------
\* The chunks received so far, each as the string it is appended as.
RECURSIVE ReceivedFrom(_)
ReceivedFrom(i) ==
    IF i > Len(log) THEN <<>>
    ELSE (IF log[i].ev = "data" THEN toString(log[i].text) ELSE <<>>) \o ReceivedFrom(i + 1)

FileSystemEvents == {"stat", "readdir", "expand", "readFile", "writeFile", "written"}

\* C10: without paths, no file system operation is ever issued; the engine
\* is called at most once, after the end of the input and then exactly once,
\* on the chunks received, concatenated in the order of their arrival; and
\* the output stream is written once when the engine succeeded, and never
\* otherwise.
C10_StreamMode ==
    options.paths = <<>> =>
        LET converts == EventsOf("convert")
        IN  /\ \A e \in Range(log) : e.ev \notin FileSystemEvents
            /\ inflight = {}
            /\ Len(converts) = IF pc \in {"ended", "exit1", "thrown"} THEN 1 ELSE 0
            /\ converts # <<>> =>
                  /\ stdin = <<>>
                  /\ converts[1].text = ReceivedFrom(1)
                  /\ \E k \in 1..Len(log) :
                        /\ log[k].ev = "end"
                        /\ log[k + 1] = converts[1]
                        /\ \A j \in 1..Len(log) : log[j].ev = "data" => j < k
            /\ Len(stdout) = IF pc = "ended" THEN 1 ELSE 0
            /\ pc = "ended" => stdout = <<EngineResult(ReceivedFrom(1)).code>>

\* A stream of two chunks has been converted and written.
C10_Witness ==
    /\ pc = "ended"
    /\ Len(EventsOf("data")) >= 2
    /\ Len(stdout) = 1
    /\ stdout[1] # <<>>

----------------------------------------------------------------------------
\* Where the file name of a path starts.
NameStart(p) ==
    LET sl == {i \in 1..Len(p) : p[i] = SLASH} IN IF sl = {} THEN 1 ELSE SetMax(sl) + 1

\* The path without its extension: without the whole of .coffee.md when it
\* ends in it, and otherwise without what starts at the last dot of the file
\* name (a name that only starts with a dot has no extension).
WithoutExtension(p) ==
    LET dots == {i \in (NameStart(p) + 1)..Len(p) : p[i] = DOT}
    IN  IF Len(p) >= 4 /\ SubSeq(p, Len(p) - 3, Len(p)) = <<".", "coffee", ".", "md">>
        THEN SubSeq(p, 1, Len(p) - 4)
        ELSE IF dots = {} THEN p
        ELSE SubSeq(p, 1, SetMax(dots) - 1)

\* Two paths name the same file or directory.
SamePath(a, b) == normalize(a) = normalize(b)

DirectoryPart(p) == SubSeq(p, 1, NameStart(p) - 1) \o <<DOT>>

\* C9: every file processed is written to its own path with the extension
\* replaced by .js, the whole of .coffee.md when the path ends in it and the
\* last extension otherwise, and so to the directory the source is in.
C9_OutputPath ==
    \A e \in Range(log) :
        e.ev = "console.log" =>
            /\ SamePath(e.out, WithoutExtension(e.path) \o <<".", "js">>)
            /\ SamePath(DirectoryPart(e.out), DirectoryPart(e.path))

----------------------------------------------------------------------------
(* C11: two executions in succession.                                      *)

\* The second execution is over.
SecondOver == Len(earlier) = 2 /\ Over

\* The files whose contents after the second execution are not the contents
\* the first execution left.
Rewritten ==
    {p \in DOMAIN fs : fs[p].kind = "file"
                        /\ (p \notin DOMAIN earlier[2] \/ fs[p] # earlier[2][p])}

\* C11 as stated: with the engine a function, the second of two executions
\* on the same paths leaves in every output file the contents the first left,
\* in both modes.
C11_AsStated == SecondOver => Rewritten = {}

\* C11: the second of two executions leaves in every output file the
\* contents the first left, except in a file that is converted in place (it
\* is its own output path) and whose contents after the first execution the
\* engine does not leave as they are.
C11_SameOutputUnlessInPlace ==
    SecondOver =>
        \A p \in Rewritten :
            /\ outputPath(p) = p
            /\ p \in DOMAIN earlier[2]
            /\ LET text == toString(earlier[2][p].bytes)
               IN  EngineResult(text).ok /\ EngineResult(text).code # text

\* The second execution has converted a file in place, and every file holds
\* what the first execution left in it.
C11_Witness ==
    /\ SecondOver
    /\ earlier[2] # earlier[1]
    /\ \E i \in 1..Len(log) : log[i].ev = "written" /\ log[i].out = log[i].path
    /\ \E i \in 1..Len(log) : log[i].ev = "written" /\ log[i].out # log[i].path
    /\ Rewritten = {}

----------------------------------------------------------------------------
(* C12: failures of readdir, readFile and writeFile.                       *)

\* The outstanding operation o is about to fail.
Failing(o) ==
    /\ pc = "paths"
    /\ o \in inflight
    /\ \/ o.op \in {"readdir", "readFile"} /\ o.path \in faults.noRead
       \/ o.op = "writeFile" /\ o.out \in faults.noWrite

\* The path the failing operation was given.
TargetOf(o) == IF o.op = "writeFile" THEN o.out ELSE o.path

\* C12: when a readdir, a readFile or a writeFile fails, exactly one error,
\* that of the operation, is appended to the error list; no child is added
\* to the work list, nothing is converted and nothing written; the head of
\* the work list is taken and stat'ed next, or, the work list being empty,
\* the run completes with the callback, if there is one, given the errors.
C12_FailuresAreIsolated ==
    [][\A o \in inflight :
          Failing(o) =>
              /\ errors' = Append(errors, Err(o.op, TargetOf(o)))
              /\ fs' = fs
              /\ pc' = pc
              /\ IF pending # <<>>
                 THEN /\ pending' = Tail(pending)
                      /\ inflight' = {Op("stat", Head(pending), <<>>, <<>>)}
                      /\ log' = Append(log, Ev("stat", Head(pending), <<>>, <<>>, <<>>, <<>>))
                      /\ delivered' = delivered
                 ELSE /\ pending' = <<>>
                      /\ inflight' = {}
                      /\ log' = log
                      /\ delivered' = IF callback THEN Append(delivered, errors') ELSE delivered]_vars

\* A write and a listing have failed, a file queued behind them has been
\* written, and the run has completed with the two errors.
C12_Witness ==
    /\ Quiescent
    /\ errors = <<Err("writeFile", Zjs), Err("readdir", D)>>
    /\ delivered = <<errors>>
    /\ \E i \in 1..Len(log) : log[i].ev = "written" /\ log[i].path = W

----------------------------------------------------------------------------
(* C13: one operation at a time.                                           *)

\* The step takes a work item: it ends with the stat of a path.
TakesItem == log' # log /\ Len(log') > 0 /\ log'[Len(log')].ev = "stat"

\* C13: at most one operation (stat, readdir, readFile, writeFile) is
\* outstanding, the conversion being part of the step that completes the
\* read; and a work item is taken only at the start of the run or in the
\* step in which the last operation of the previous item completes: its
\* readdir, its failed readFile or its writeFile.
C13_OneAtATime ==
    [][/\ Cardinality(inflight) <= 1
       /\ Cardinality(inflight') <= 1
       /\ TakesItem =>
             \/ pc = "start" /\ inflight = {}
             \/ \E o \in inflight :
                   /\ inflight = {o}
                   /\ o \notin inflight'
                   /\ \/ o.op \in {"readdir", "writeFile"}
                      \/ o.op = "readFile" /\ o.path \in faults.noRead]_vars

\* A second work item has been taken after the write of the first completed,
\* and its stat is the one operation outstanding.
C13_Witness ==
    /\ \E i \in 1..Len(log) : log[i].ev = "written" /\ i + 1 = Len(log)
    /\ \E o \in inflight : inflight = {o} /\ o.op = "stat"
    /\ Len(options.paths) >= 2

----------------------------------------------------------------------------
(* C14: the size of the work list.                                         *)

\* The work list: the paths given until runWithPaths has copied them.
WorkList == IF pc = "start" THEN options.paths ELSE pending

\* How many children the step adds: those of the directory whose listing
\* arrives whose names match the filter, none in any other step.
Growth ==
    IF \E o \in inflight : Expanding(o)
    THEN LET o == CHOOSE x \in inflight : Expanding(x)
             children == fs[o.path].list
         IN  Cardinality({k \in 1..Len(children) : NameMatches(children[k])})
    ELSE 0

\* C14: a step that takes a work item shrinks the work list by exactly one,
\* a step in which a directory listing arrives grows it by exactly the number
\* of children whose names match the filter, and nothing else changes its
\* length; what is left is what was there, in order, and an added item is a
\* path inside the directory expanded, never that directory itself.
C14_WorkListSize ==
    [][/\ Len(pending') = Len(WorkList) + Growth - (IF TakesItem THEN 1 ELSE 0)
       /\ LET old == IF TakesItem /\ Growth = 0 /\ WorkList # <<>>
                     THEN Tail(WorkList) ELSE WorkList
              n == Len(pending')
          IN  n >= Len(old) /\ SubSeq(pending', n - Len(old) + 1, n) = old
       /\ \A o \in inflight : Expanding(o) /\ Growth > 0 =>
             /\ \A k \in 1..(Len(pending') - Len(pending)) : Len(pending'[k]) > Len(o.path)
             /\ \A n \in inflight' : n.op = "stat" /\ Len(n.path) > Len(o.path)]_vars

\* The listing of D has arrived with z.coffee pending: the work list has
\* grown by the two children and shrunk by the one taken.
C14_Witness ==
    /\ pending = <<In(D, <<"y", ".", "coffee">>), Z>>
    /\ inflight = {Op("stat", In(D, <<"x", ".", "coffee">>), <<>>, <<>>)}
    /\ Len(log) > 0 /\ log[Len(log) - 1].ev = "expand"

----------------------------------------------------------------------------
(* C15: an error of the engine that is not a PatchError.                   *)

\* The text of a file is about to arrive, and the engine throws an error
\* that is not a PatchError on it.
Throwing(o) ==
    /\ pc = "paths"
    /\ o \in inflight
    /\ o.op = "readFile"
    /\ o.path \notin faults.noRead
    /\ LET r == EngineResult(toString(fs[o.path].bytes))
       IN  ~r.ok /\ ~r.patchError

\* C15: when the engine throws an error that is not a PatchError on a
\* file's text, the error leaves runWithCode and the readFile callback
\* uncaught: nothing is appended to the error list, no write is issued, the
\* work list is left as it is, the callback is not called, and the run takes
\* no further step.
C15_OpaqueErrorIsFatal ==
    [][/\ pc # "thrown"
       /\ \A o \in inflight :
             Throwing(o) =>
                 /\ pc' = "thrown"
                 /\ errors' = errors
                 /\ inflight' = {}
                 /\ pending' = pending
                 /\ fs' = fs
                 /\ delivered' = delivered
                 /\ log' = Append(log, ConvertEv(o.path, toString(fs[o.path].bytes)))]_vars

\* The engine's error has ended a run that had recorded an error and still
\* had a file to convert.
C15_Witness ==
    /\ pc = "thrown"
    /\ errors = <<Err("readdir", D)>>
    /\ pending = <<W>>
    /\ delivered = <<>>

----------------------------------------------------------------------------
(* C16: the error list.                                                    *)

\* The events that issue an operation.
Issues(e) == e.ev \in {"stat", "readdir", "readFile", "writeFile"}

\* The error of the operation the event e issued, if it fails: the stat of a
\* path that does not exist, the readdir or readFile of a path that cannot
\* be read, the writeFile of one that cannot be written.
FailureOf(e) ==
    IF e.ev = "stat" /\ e.path \notin DOMAIN fs THEN <<Err("stat", e.path)>>
    ELSE IF e.ev \in {"readdir", "readFile"} /\ e.path \in faults.noRead
         THEN <<Err(e.ev, e.path)>>
    ELSE IF e.ev = "writeFile" /\ e.out \in faults.noWrite
         THEN <<Err("writeFile", e.out)>>
    ELSE <<>>

\* The errors of the operations that have failed so far, in order.  The
\* operations that have completed are those issued, less the last one while
\* it is outstanding.
FailedSoFar ==
    LET issued == SelectSeq(log, Issues)
        done == IF inflight = {} THEN issued ELSE SubSeq(issued, 1, Len(issued) - 1)
        Fails(e) == FailureOf(e) # <<>>
        failed == SelectSeq(done, Fails)
    IN  [i \in 1..Len(failed) |-> FailureOf(failed[i])[1]]

\* C16: the error list is empty when runWithPaths begins, a step only
\* appends to it, and after every step it is the list of the errors of the
\* stat, readdir, readFile and writeFile operations that have failed so far,
\* in the order of the failures; so it is empty when the run is over
\* exactly if none has failed.
C16_ErrorList ==
    [][/\ errors' = FailedSoFar'
       /\ IsPrefix(errors, errors')
       /\ pc = "start" => errors = <<>> /\ errors' = <<>>]_vars

\* A listing has failed, then a stat: the list holds the two errors in that
\* order, and nothing is outstanding.
C16_Witness ==
    /\ Quiescent
    /\ errors = <<Err("readdir", D), Err("stat", Z)>>
    /\ Len(EventsOf("stat")) = 2

----------------------------------------------------------------------------
(* C17: the completion callback.                                           *)

\* C17: the callback is called at most once in a run, by a step that leaves
\* the work list empty and nothing outstanding and issues no operation, with
\* the error list as its argument; once it has been called the run takes no
\* further step: no stat, readdir, read, conversion or write.
C17_CallbackOnceAtTheEnd ==
    [][/\ delivered = <<>>
       /\ delivered' # delivered =>
             /\ callback
             /\ delivered' = <<errors'>>
             /\ pending' = <<>>
             /\ inflight' = {}
             /\ SelectSeq(log', Issues) = SelectSeq(log, Issues)
             /\ EventsOf("convert")' = EventsOf("convert")]_vars

\* The callback has been called once, after three files were written.
C17_Witness ==
    /\ Len(delivered) = 1
    /\ Len(EventsOf("written")) = 3
    /\ Quiescent
    /\ pending = <<>>

----------------------------------------------------------------------------
(* C18: the steps of a file.                                               *)

\* The i-th event of the log is of the given kind and about the given path.
IsEv(i, kind, path) == i >= 1 /\ i <= Len(log) /\ log[i].ev = kind /\ log[i].path = path

\* C18: a read is issued once for a work item, right after its stat and the
\* message; the engine is called on a file's text only right after the read
\* of that file, which has not failed, and so at most once for a work item;
\* a write is issued only right after the engine has returned for that file,
\* so at most once for a work item, with the engine's result as its text
\* and the output path of that file's path as its target.
C18_ReadConvertWrite ==
    \A k \in 1..Len(log) :
        LET e == log[k]
        IN  /\ e.ev = "readFile" =>
                  /\ IsEv(k - 1, "console.log", e.path)
                  /\ IsEv(k - 2, "stat", e.path)
                  /\ e.out = outputPath(e.path)
            /\ (e.ev = "convert" /\ e.path # STDIN) =>
                  /\ IsEv(k - 1, "readFile", e.path)
                  /\ e.path \notin faults.noRead
            /\ e.ev = "writeFile" =>
                  /\ IsEv(k - 1, "convert", e.path)
                  /\ EngineResult(log[k - 1].text).ok
                  /\ e.text = EngineResult(log[k - 1].text).code
                  /\ e.out = log[k - 2].out
                  /\ e.out = outputPath(e.path)
            /\ e.ev = "written" =>
                  /\ IsEv(k - 1, "writeFile", e.path)
                  /\ e.out = log[k - 1].out
                  /\ e.text = log[k - 1].text

\* Two files of a directory have been read, converted and written, each to
\* its own output path.
C18_Witness ==
    /\ Len(EventsOf("written")) = 2
    /\ Len(EventsOf("convert")) = 2
    /\ Len(EventsOf("expand")) = 1
    /\ \A i \in 1..Len(log) : log[i].ev = "written" => fs[log[i].out].bytes = toBytes(log[i].text)
    /\ Quiescent

----------------------------------------------------------------------------
(* C19: a file given on the command line.                                  *)

\* The name of the path given passes the filter of processDirectory.
GivenNameMatches == NameMatches(basename(options.paths[1], <<>>))

\* C19: a path given on the command line that is a plain file is read,
\* converted and written whatever its name and whatever the mode: once its
\* stat has completed the read of it has been issued, and when the run is
\* over the engine's result for its text is in the file at its output path.
C19_GivenFileIsProcessed ==
    LET p == options.paths[1]
    IN  /\ (Len(log) >= 2 \/ (Len(log) = 1 /\ inflight = {})) =>
              /\ IsEv(1, "stat", p)
              /\ IsEv(2, "console.log", p)
              /\ IsEv(3, "readFile", p)
        /\ Quiescent =>
              /\ PathsOf(log) = <<p, p, p, p, p, p>>
              /\ IsEv(4, "convert", p)
              /\ IsEv(6, "written", p)
              /\ log[6].out = outputPath(p)
              /\ fs[outputPath(p)] = File(toBytes(EngineResult(<<"c">>).code))
              /\ delivered = << <<>> >>

\* A file whose name the filter rejects has been converted and written, in
\* modernize mode.
C19_Witness ==
    /\ Quiescent
    /\ options.modernizeJS
    /\ options.paths = << <<"a", SLASH, "a", DOT, "md">> >>
    /\ ~GivenNameMatches
    /\ IsEv(6, "written", options.paths[1])

====
